---- MODULE Spec2Model ----
(***************************************************************************)
(* Geometric primitives (geometry.rs) and the Bowyer-Watson triangulation  *)
(* (delaunay.rs) of the worldgen backend.                                  *)
(*                                                                         *)
(* Numbers.  An f32 is modelled as an integer of magnitude at most FMax,   *)
(* or one of the three special values PInf, NInf, NaN.  One model unit is  *)
(* 0.5, so the initial super triangle (0,0.5) (-1,-0.5) (1,0.5) is         *)
(* (0,1) (-2,-1) (2,1).  Binary floating point is covariant under a        *)
(* scaling by two, and every integer up to FMax has at most 24 significant *)
(* bits, so sums, differences and products are exact unless they pass FMax,*)
(* where they become infinite as in IEEE 754.  Quotients and square roots  *)
(* are compared exactly (cross-multiplied, squared); their rounding is not *)
(* represented.                                                            *)
(***************************************************************************)
EXTENDS Integers, Sequences, FiniteSets

VARIABLES
    \* ---- delaunay(points) ----
    points,          \* the input slice
    pc,              \* "super" | "insert" | "done"
    outcome,         \* "running" | "returned" | "panicked"
    top, left, right,\* locals of super_triangle
    n,               \* index of the point the super_triangle loop is at
    triangulation,   \* the working HashSet<Triangle>
    i,               \* index of the next point to insert
    invalidated,     \* HashSet built by the last insertion
    polygon,         \* edges pushed by the last insertion
    before,          \* triangulation at the start of the last insertion
    circles,         \* <<triangle, circumcircle>> computed by the last insertion
    super,           \* the triangle super_triangle returned
    \* ---- Point2D / Segment values built through the public operations ----
    pa, pb,          \* two Point2D values
    sab, sba,        \* Segment::new(pa, pb) and Segment::new(pb, pa)
    pstat,           \* "ok" | "panic" (an assert! of geometry.rs failed)
    nops             \* number of arithmetic operations applied so far

dvars == <<points, pc, outcome, top, left, right, n, triangulation, i,
           invalidated, polygon, before, circles, super>>
pvars == <<pa, pb, sab, sba, pstat, nops>>
vars  == <<points, pc, outcome, top, left, right, n, triangulation, i,
           invalidated, polygon, before, circles, super,
           pa, pb, sab, sba, pstat, nops>>

(***************************************************************************)
(* Bounds                                                                  *)
(***************************************************************************)
\* f32::MAX is just below 2^128 = 2^(4*32); the model keeps that shape with
\* a small exponent: FMax = 2^(4*QExp) - 1.
QExp == 5
\* input coordinates: x in -MaxCoord..1, y in 0..MaxCoord
MaxCoord == 1
\* longest input slice
MaxPoints == 3
\* number of Point2D operations chained in PointSpec
MaxOps == 2

(***************************************************************************)
(* f32                                                                     *)
(***************************************************************************)
FMax == 2^(4 * QExp) - 1
PInf == FMax + 1
NInf == -(FMax + 1)
NaN  == FMax + 2

is_nan(x)    == x = NaN
is_finite(x) == x >= -FMax /\ x <= FMax
Abs(x)       == IF x < 0 THEN -x ELSE x
Sign(x)      == IF x < 0 THEN -1 ELSE IF x > 0 THEN 1 ELSE 0

\* the f32 nearest to the exact result r
Round(r) == IF r > FMax THEN PInf ELSE IF r < -FMax THEN NInf ELSE r

\* x + y
FAdd(x, y) ==
    IF is_nan(x) \/ is_nan(y) THEN NaN
    ELSE IF ~is_finite(x) THEN (IF ~is_finite(y) /\ y # x THEN NaN ELSE x)
    ELSE IF ~is_finite(y) THEN y
    ELSE Round(x + y)

\* -x
FNeg(x) == IF is_nan(x) THEN NaN ELSE -x

\* x - y
FSub(x, y) == FAdd(x, FNeg(y))

\* x * y
FMul(x, y) ==
    IF is_nan(x) \/ is_nan(y) THEN NaN
    ELSE IF ~is_finite(x) \/ ~is_finite(y)
         THEN (IF x = 0 \/ y = 0 THEN NaN
               ELSE IF Sign(x) * Sign(y) > 0 THEN PInf ELSE NInf)
    ELSE IF x = 0 \/ y = 0 THEN 0
    ELSE IF Abs(x) > FMax \div Abs(y)
         THEN (IF Sign(x) * Sign(y) > 0 THEN PInf ELSE NInf)
    ELSE x * y

\* x.powi(2)
FSq(x) == FMul(x, x)

\* x < y and x == y on f32: every comparison with NaN is false
FLt(x, y) == ~is_nan(x) /\ ~is_nan(y) /\ x < y
FEq(x, y) == ~is_nan(x) /\ ~is_nan(y) /\ x = y

\* is_normal for a scalar of the model: finite and non-zero (the integer
\* lattice has no subnormal numbers)
is_normal(x) == is_finite(x) /\ x # 0

(***************************************************************************)
(* Point2D                                                                 *)
(***************************************************************************)
X(p) == p[1]
Y(p) == p[2]

\* the asserts of Point2D::new
Point2D_new_ok(x, y) == is_finite(x) /\ is_finite(y)
Point2D_new(x, y) == <<x, y>>

origin == Point2D_new(0, 0)

Point2D_add(a, b) == <<FAdd(X(a), X(b)), FAdd(Y(a), Y(b))>>
Point2D_sub(a, b) == <<FSub(X(a), X(b)), FSub(Y(a), Y(b))>>

\* Mul<f32>: the assert, then the product
Point2D_mul_ok(rhs) == is_normal(rhs)
Point2D_mul(a, rhs) == <<FMul(X(a), rhs), FMul(Y(a), rhs)>>

\* Div<f32>.  The divisor is the rational rhs[1] / rhs[2]; the model draws
\* it with a numerator of 1 or -1 (or a rejected one), so that the quotient
\* a * rhs[2] / rhs[1] stays on the integer lattice.
Point2D_div_ok(rhs) == rhs[1] # 0 /\ is_finite(rhs[1])
Point2D_div(a, rhs) ==
    <<FMul(FMul(X(a), rhs[2]), rhs[1]), FMul(FMul(Y(a), rhs[2]), rhs[1])>>

Point2D_neg(a) == Point2D_sub(origin, a)

\* derived PartialEq
Point2D_eq(a, b) == FEq(X(a), X(b)) /\ FEq(Y(a), Y(b))

\* derived PartialOrd, a < b: lexicographic partial_cmp, x then y
Point2D_lt(a, b) ==
    \/ FLt(X(a), X(b))
    \/ FEq(X(a), X(b)) /\ FLt(Y(a), Y(b))

(***************************************************************************)
(* Segment                                                                 *)
(***************************************************************************)
Segment_new(a, b) == IF Point2D_lt(b, a) THEN <<b, a>> ELSE <<a, b>>

endpoints(s) == s

\* derived PartialEq
Segment_eq(s, t) == Point2D_eq(s[1], t[1]) /\ Point2D_eq(s[2], t[2])

(***************************************************************************)
(* Triangle                                                                *)
(***************************************************************************)
Triangle_new(a, b, c) == <<a, b, c>>

edges(t) ==
    <<Segment_new(t[1], t[2]), Segment_new(t[2], t[3]), Segment_new(t[3], t[1])>>

dot(p1, p2) == FAdd(FMul(X(p1), X(p2)), FMul(Y(p1), Y(p2)))

\* The last three lines of Triangle::contains, with d = 1.0 / den,
\* u = nu * d and v = nv * d:   u >= 0.0 && v >= 0.0 && u + v < 1.0
\*   den NaN                : d, u, v are NaN, every comparison is false
\*   den = 0                : d is infinite, u and v are infinite or NaN, and
\*                            u + v < 1.0 is false whenever u, v >= 0.0
\*   den infinite           : d = 0, u = nu * 0 is 0 for a finite nu and NaN
\*                            otherwise
\*   den finite, non-zero   : u = nu / den; an infinite or NaN nu or nv
\*                            falsifies one of the three comparisons
BarycentricTest(nu, nv, den) ==
    IF is_nan(den) \/ den = 0 THEN FALSE
    ELSE IF ~is_finite(den) THEN is_finite(nu) /\ is_finite(nv)
    ELSE /\ is_finite(nu) /\ is_finite(nv)
         /\ nu * Sign(den) >= 0
         /\ nv * Sign(den) >= 0
         /\ (nu + nv) * Sign(den) < Abs(den)

Triangle_contains(t, point) ==
    LET v0 == Point2D_sub(t[3], t[1])
        v1 == Point2D_sub(t[2], t[1])
        v2 == Point2D_sub(point, t[1])
        dot00 == dot(v0, v0)
        dot01 == dot(v0, v1)
        dot02 == dot(v0, v2)
        dot11 == dot(v1, v1)
        dot12 == dot(v1, v2)
        den == FSub(FMul(dot00, dot11), FMul(dot01, dot01))
        nu  == FSub(FMul(dot11, dot02), FMul(dot01, dot12))
        nv  == FSub(FMul(dot00, dot12), FMul(dot01, dot02))
    IN  BarycentricTest(nu, nv, den)

\* d and k of Triangle::circumcircle
circum_d(t) ==
    LET b == Point2D_sub(t[2], t[1])
        c == Point2D_sub(t[3], t[1])
    IN  FMul(2, FSub(FMul(X(b), Y(c)), FMul(X(c), Y(b))))

circum_k(t) ==
    LET b == Point2D_sub(t[2], t[1])
        c == Point2D_sub(t[3], t[1])
    IN  FSub(FMul(Y(c), FAdd(FSq(X(b)), FSq(Y(b)))),
             FMul(Y(b), FAdd(FSq(X(c)), FSq(Y(c)))))

\* Point2D::new(x, y) with x = k / d and y = (-k) / d passes its asserts iff
\* the quotient is finite: d = 0 gives an infinity or NaN, an infinite d
\* gives 0 for a finite k.
circumcircle_ok(t) ==
    LET d == circum_d(t)
        k == circum_k(t)
    IN  /\ ~is_nan(d) /\ is_finite(k)
        /\ d # 0

\* The circle returned for a triangle that passes the asserts.  The center
\* is the rational point (center[1] / den, center[2] / den), that is
\* (k / d, -k / d) + a, and rsq / den^2 is the square of the radius
\* distance(center, a).
circumcircle(t) ==
    LET d == circum_d(t)
        k == circum_k(t)
        a == t[1]
    IN  IF is_finite(d)
        THEN [center |-> <<X(a) * d + k, Y(a) * d - k>>, den |-> d,
              rsq |-> 2 * k * k]
        ELSE [center |-> a, den |-> 1, rsq |-> 0]

(***************************************************************************)
(* Circle                                                                  *)
(***************************************************************************)
\* den^2 times the squared distance from the center of c to p
DistSq(c, p) ==
    LET dx == X(p) * c.den - c.center[1]
        dy == Y(p) * c.den - c.center[2]
    IN  dx * dx + dy * dy

\* distance(center, point) <= radius
Circle_contains(c, point) == DistSq(c, point) <= c.rsq

(***************************************************************************)
(* super_triangle                                                          *)
(***************************************************************************)
Grid == {<<x, y>> : x \in -MaxCoord..1, y \in 0..MaxCoord}

Inputs == UNION {[1..m -> Grid] : m \in 0..MaxPoints}

InitPoint ==
    /\ pa = origin /\ pb = origin
    /\ sab = Segment_new(origin, origin) /\ sba = Segment_new(origin, origin)
    /\ pstat = "ok" /\ nops = 0

Init ==
    /\ points \in Inputs
    /\ pc = "super"
    /\ outcome = "running"
    /\ top = Point2D_new(0, 1)
    /\ left = Point2D_new(-2, -1)
    /\ right = Point2D_new(2, 1)
    /\ n = 1
    /\ triangulation = {}
    /\ i = 1
    /\ invalidated = {}
    /\ polygon = {}
    /\ before = {}
    /\ circles = {}
    /\ super = Triangle_new(top, left, right)
    /\ InitPoint

\* tri.contains(*point) holds: break, on to the next point
SuperBreak ==
    /\ pc = "super" /\ n <= Len(points)
    /\ Triangle_contains(Triangle_new(top, left, right), points[n])
    /\ n' = n + 1
    /\ UNCHANGED <<points, pc, outcome, top, left, right, triangulation, i,
                   invalidated, polygon, before, circles, super>>
    /\ UNCHANGED pvars

\* tri.contains(*point) fails: double the three vertices and retry
SuperDouble ==
    /\ pc = "super" /\ n <= Len(points)
    /\ ~Triangle_contains(Triangle_new(top, left, right), points[n])
    /\ Point2D_mul_ok(2)
    /\ top' = Point2D_mul(top, 2)
    /\ left' = Point2D_mul(left, 2)
    /\ right' = Point2D_mul(right, 2)
    /\ UNCHANGED <<points, pc, outcome, n, triangulation, i,
                   invalidated, polygon, before, circles, super>>
    /\ UNCHANGED pvars

\* super_triangle returns; delaunay seeds the triangulation with the result
SuperReturn ==
    /\ pc = "super" /\ n > Len(points)
    /\ super' = Triangle_new(top, left, right)
    /\ triangulation' = {super'}
    /\ pc' = "insert"
    /\ UNCHANGED <<points, outcome, top, left, right, n, i,
                   invalidated, polygon, before, circles>>
    /\ UNCHANGED pvars

(***************************************************************************)
(* delaunay                                                                *)
(***************************************************************************)
\* every triangle whose circumcircle contains the point
Invalidated(tris, point) ==
    {t \in tris : Circle_contains(circumcircle(t), point)}

\* Polygon without the test against the other invalidated triangles: every
\* edge of every invalidated triangle is pushed.
PolygonEveryEdge(inv) == UNION {{edges(t)[j] : j \in 1..3} : t \in inv}

\* The edges pushed to polygon: an edge of an invalidated triangle that no
\* other invalidated triangle has.  (A Vec in the source; only the set of
\* its elements reaches the triangulation.)
Polygon(inv) ==
    {e \in UNION {{edges(t)[j] : j \in 1..3} : t \in inv} :
        \E t \in inv : \E j \in 1..3 :
            /\ edges(t)[j] = e
            /\ \A t2 \in inv : t2 # t =>
                   \A j2 \in 1..3 : ~Segment_eq(e, edges(t2)[j2])}

\* one iteration of `for point in points`
Insert ==
    /\ pc = "insert" /\ i <= Len(points)
    /\ \A t \in triangulation : circumcircle_ok(t)
    /\ LET point == points[i]
           inv == Invalidated(triangulation, point)
           poly == Polygon(inv)
       IN  /\ circles' = {<<t, circumcircle(t)>> : t \in triangulation}
           /\ invalidated' = inv
           /\ polygon' = poly
           /\ triangulation' = (triangulation \ inv) \cup
                  {Triangle_new(point, endpoints(e)[1], endpoints(e)[2]) : e \in poly}
    /\ before' = triangulation
    /\ i' = i + 1
    /\ UNCHANGED <<points, pc, outcome, top, left, right, n, super>>
    /\ UNCHANGED pvars

\* an assert of Point2D::new fails inside triangle.circumcircle()
InsertPanic ==
    /\ pc = "insert" /\ i <= Len(points)
    /\ \E t \in triangulation : ~circumcircle_ok(t)
    /\ pc' = "done"
    /\ outcome' = "panicked"
    /\ UNCHANGED <<points, top, left, right, n, triangulation, i,
                   invalidated, polygon, before, circles, super>>
    /\ UNCHANGED pvars

\* triangles with super_edges[j] == triangle.edges()[j] for some j (zip)
SuperRelated(tris, sup) ==
    {t \in tris : \E j \in 1..3 : Segment_eq(edges(sup)[j], edges(t)[j])}

\* the loop is over: remove the super-related triangles and return
Cleanup ==
    /\ pc = "insert" /\ i > Len(points)
    /\ triangulation' = triangulation \ SuperRelated(triangulation, super)
    /\ pc' = "done"
    /\ outcome' = "returned"
    /\ UNCHANGED <<points, top, left, right, n, i,
                   invalidated, polygon, before, circles, super>>
    /\ UNCHANGED pvars

Next ==
    \/ SuperBreak
    \/ SuperDouble
    \/ SuperReturn
    \/ Insert
    \/ InsertPanic
    \/ Cleanup

Spec == Init /\ [][Next]_vars

TypeOK ==
    /\ pc \in {"super", "insert", "done"}
    /\ outcome \in {"running", "returned", "panicked"}

(***************************************************************************)
(* Point2D and Segment values built through the public operations          *)
(***************************************************************************)
\* coordinates handed to Point2D::new
Coords == {0, 1, FMax}
NewArgs == Coords \cup {PInf, NInf, NaN}
\* scale factors handed to Mul<f32>
MulScalars == {2, -1, 0, PInf, NaN}
\* divisors handed to Div<f32>: 1/2, -1, 0, infinity, NaN
DivScalars == {<<1, 2>>, <<-1, 1>>, <<0, 1>>, <<PInf, 1>>, <<NaN, 1>>}

InitDelaunayIdle ==
    /\ points = << >>
    /\ pc = "done"
    /\ outcome = "returned"
    /\ top = Point2D_new(0, 1)
    /\ left = Point2D_new(-2, -1)
    /\ right = Point2D_new(2, 1)
    /\ n = 1
    /\ triangulation = {}
    /\ i = 1
    /\ invalidated = {}
    /\ polygon = {}
    /\ before = {}
    /\ circles = {}
    /\ super = Triangle_new(top, left, right)

PointInit ==
    /\ InitDelaunayIdle
    /\ pa \in {Point2D_new(x, y) : x \in Coords, y \in Coords}
    /\ pb \in {Point2D_new(x, y) : x \in Coords, y \in Coords}
    /\ sab = Segment_new(pa, pb)
    /\ sba = Segment_new(pb, pa)
    /\ pstat = "ok"
    /\ nops = 0

\* the result r of an operation becomes one of the two operands
Store(r, dst) ==
    /\ pa' = IF dst = "a" THEN r ELSE pa
    /\ pb' = IF dst = "b" THEN r ELSE pb
    /\ pstat' = "ok"

Panic ==
    /\ pstat' = "panic"
    /\ UNCHANGED <<pa, pb>>

Step ==
    /\ pstat = "ok" /\ nops < MaxOps
    /\ nops' = nops + 1
    /\ UNCHANGED <<sab, sba>>
    /\ UNCHANGED dvars

Operand(src) == IF src = "a" THEN pa ELSE pb

PNew(x, y, dst) ==
    /\ Step
    /\ IF Point2D_new_ok(x, y) THEN Store(Point2D_new(x, y), dst) ELSE Panic

PAdd(l, r, dst) == Step /\ Store(Point2D_add(Operand(l), Operand(r)), dst)

PSub(l, r, dst) == Step /\ Store(Point2D_sub(Operand(l), Operand(r)), dst)

PMul(l, rhs, dst) ==
    /\ Step
    /\ IF Point2D_mul_ok(rhs) THEN Store(Point2D_mul(Operand(l), rhs), dst)
       ELSE Panic

PDiv(l, rhs, dst) ==
    /\ Step
    /\ IF Point2D_div_ok(rhs) THEN Store(Point2D_div(Operand(l), rhs), dst)
       ELSE Panic

PNeg(l, dst) == Step /\ Store(Point2D_neg(Operand(l)), dst)

SegmentNew ==
    /\ pstat = "ok"
    /\ sab' = Segment_new(pa, pb)
    /\ sba' = Segment_new(pb, pa)
    /\ UNCHANGED <<pa, pb, pstat, nops>>
    /\ UNCHANGED dvars

Names == {"a", "b"}

PointNext ==
    \/ \E x \in NewArgs, y \in NewArgs, dst \in Names : PNew(x, y, dst)
    \/ \E l \in Names, r \in Names, dst \in Names : PAdd(l, r, dst)
    \/ \E l \in Names, r \in Names, dst \in Names : PSub(l, r, dst)
    \/ \E l \in Names, rhs \in MulScalars, dst \in Names : PMul(l, rhs, dst)
    \/ \E l \in Names, rhs \in DivScalars, dst \in Names : PDiv(l, rhs, dst)
    \/ \E l \in Names, dst \in Names : PNeg(l, dst)
    \/ SegmentNew

PointSpec == PointInit /\ [][PointNext]_vars

(***************************************************************************)
(* Properties                                                              *)
(***************************************************************************)
Vertices(t) == {t[1], t[2], t[3]}
Range(s) == {s[j] : j \in 1..Len(s)}
Distinct(s) == Cardinality(Range(s)) = Len(s)

\* twice the signed area of (a, b, c)
Orient(a, b, c) ==
    (X(b) - X(a)) * (Y(c) - Y(a)) - (X(c) - X(a)) * (Y(b) - Y(a))

Collinear(a, b, c) == Orient(a, b, c) = 0

\* the in-circle determinant of a, b, c relative to p
InCircleDet(a, b, c, p) ==
    LET ax == X(a) - X(p)  ay == Y(a) - Y(p)
        bx == X(b) - X(p)  by == Y(b) - Y(p)
        cx == X(c) - X(p)  cy == Y(c) - Y(p)
        az == ax * ax + ay * ay
        bz == bx * bx + by * by
        cz == cx * cx + cy * cy
    IN  ax * (by * cz - bz * cy) - ay * (bx * cz - bz * cx)
          + az * (bx * cy - by * cx)

\* p lies strictly inside the circle through the three vertices of t
StrictlyInsideCircumscribed(t, p) ==
    Sign(Orient(t[1], t[2], t[3])) * Sign(InCircleDet(t[1], t[2], t[3], p)) > 0

\* C1: no input point that is not a vertex of a returned triangle lies
\* strictly inside the circle through that triangle's three vertices.
EmptyCircumcircle ==
    outcome = "returned" =>
        \A t \in triangulation : \A p \in Range(points) :
            p \notin Vertices(t) => ~StrictlyInsideCircumscribed(t, p)

\* C2: no returned triangle has a vertex of the super triangle among its
\* three vertices.
SuperTrianglePurged ==
    outcome = "returned" =>
        \A t \in triangulation : Vertices(t) \cap Vertices(super) = {}

\* the doubling loop is at a point its triangle does not contain, and doubling
\* the three vertices gives the same three vertices: the run repeats this
\* state forever
DoublesForever ==
    /\ pc = "super" /\ n <= Len(points)
    /\ ~Triangle_contains(Triangle_new(top, left, right), points[n])
    /\ Point2D_mul(top, 2) = top
    /\ Point2D_mul(left, 2) = left
    /\ Point2D_mul(right, 2) = right

\* C3: super_triangle returns for every input: no input makes the loop
\* double forever.  The call is deterministic, so it fails to terminate
\* exactly when it reaches a loop state that its own step reproduces.
SuperTriangleTerminates == ~DoublesForever

\* C4: the set returned for three non-collinear input points has exactly one
\* triangle, whose vertex set is the three points.
MinimalCase ==
    (/\ outcome = "returned" /\ Len(points) = 3
     /\ ~Collinear(points[1], points[2], points[3]))
        => /\ Cardinality(triangulation) = 1
           /\ \A t \in triangulation : Vertices(t) = Range(points)

\* C5: a call with three (distinct) collinear input points never returns a
\* set that contains a triangle whose three vertices are collinear.
DegenerateRejection ==
    (/\ outcome = "returned" /\ Len(points) = 3 /\ Distinct(points)
     /\ Collinear(points[1], points[2], points[3]))
        => \A t \in triangulation : ~Collinear(t[1], t[2], t[3])

\* C6: Segment::new(a, b) equals Segment::new(b, a), and the stored start is
\* never greater than the stored end.
SegmentSymmetry ==
    /\ Segment_eq(sab, sba)
    /\ ~Point2D_lt(sab[2], sab[1])
    /\ ~Point2D_lt(sba[2], sba[1])

\* C7: every Point2D value has finite x and y; an operation whose result
\* would not be finite fails instead of yielding the point.
PointFinite ==
    /\ is_finite(X(pa)) /\ is_finite(Y(pa))
    /\ is_finite(X(pb)) /\ is_finite(Y(pb))

\* C8: the circle returned by circumcircle for a triangle with non-collinear
\* vertices passes through the three vertices: its center is at distance
\* radius from each of them.
CircumcircleThroughVertices ==
    \A tc \in circles :
        LET t == tc[1]
            c == tc[2]
        IN  ~Collinear(t[1], t[2], t[3]) =>
                /\ DistSq(c, t[1]) = c.rsq
                /\ DistSq(c, t[2]) = c.rsq
                /\ DistSq(c, t[3]) = c.rsq

\* the three sides of t as unordered pairs of vertices
Sides(t) == {{t[1], t[2]}, {t[2], t[3]}, {t[3], t[1]}}

\* the sides that belong to exactly one triangle of inv
BoundarySides(inv) ==
    {sd \in UNION {Sides(t) : t \in inv} :
        Cardinality({t \in inv : sd \in Sides(t)}) = 1}

\* C9: right after an insertion, the polygon holds exactly the edges that
\* belong to one invalidated triangle only, and the working set is the
\* previous set minus the invalidated triangles plus one triangle
\* (point, p, q) per polygon edge (p, q).
CavityRetriangulated ==
    (pc = "insert" /\ i > 1) =>
        /\ {{e[1], e[2]} : e \in polygon} = BoundarySides(invalidated)
        /\ Cardinality(polygon) = Cardinality(BoundarySides(invalidated))
        /\ invalidated \subseteq before
        /\ triangulation = (before \ invalidated) \cup
               {<<points[i - 1], e[1], e[2]>> : e \in polygon}

\* witness of C9: an insertion invalidated two triangles that share a side,
\* and that side is not in the polygon.
CavityWitness ==
    /\ pc = "insert" /\ i > 1
    /\ \E t1 \in invalidated : \E t2 \in invalidated :
           /\ t1 # t2
           /\ \E sd \in Sides(t1) \cap Sides(t2) :
                  sd \notin {{e[1], e[2]} : e \in polygon}
    /\ polygon # {}

\* C10: right after the insertion of a point (of a sequence of distinct
\* points), some triangle of the working set has that point as a vertex.
NoPointDropped ==
    (pc = "insert" /\ i > 1 /\ Distinct(points)) =>
        \E t \in triangulation : points[i - 1] \in Vertices(t)

====
